---- MODULE Spec2Model ----
(***************************************************************************)
(* File Chunker 1.3.0 (src/main.py): the chunking engine (ChunkConfig,     *)
(* GenericBinaryChunker, TextFileChunker, PdfFileChunker, estimate_chunks) *)
(* and the App's worker threads and progress queue.                        *)
(*                                                                         *)
(* Spec     one direct call of split() on worker 1, inputs drawn from      *)
(*          bounded sets (policy, source, state of the output directory).  *)
(* SpecApp  the App: start_splitting spawns split_task threads that run    *)
(*          the same split steps and put on App.queue; process_queue       *)
(*          takes the items off the queue.                                 *)
(***************************************************************************)
EXTENDS Integers, Sequences, FiniteSets, TLC

\* ---------------------------------------------------------------- bounds
\* threads start_splitting may spawn
MaxWorkers == 2
\* number_of_chunks is drawn from 0..MaxParts
MaxParts == 4
\* bytes_per_chunk is drawn from 1024..1024+MaxExtra
MaxExtra == 2
\* small sources: every byte string of length 0..MaxSmallLen
MaxSmallLen == 4
\* large sources: about MaxFullChunks chunks of the smallest legal size
MaxFullChunks == 2
\* page-structured sources have 0..MaxPages pages
MaxPages == 5

\* ------------------------------------------------------ program constants
\* ChunkConfig.__post_init__: bytes_per_chunk <= 1024 is rejected
MinChunkBytes == 1024
\* queue.Queue() is built with the default maxsize 0 (unbounded)
QueueMaxSize == 0

\* ---------------------------------------------------------------- values
Workers == 1..MaxWorkers

\* Python's None / an unbound local, and a bound value
None == << >>
Some(v) == << v >>

Min(a, b) == IF a < b THEN a ELSE b
Max(a, b) == IF a > b THEN a ELSE b

ByteVals == {0, 255}

RECURSIVE SeqsOfLen(_)
SeqsOfLen(n) ==
  IF n = 0 THEN { << >> }
  ELSE { Append(s, b) : s \in SeqsOfLen(n - 1), b \in ByteVals }

SmallData == UNION { SeqsOfLen(n) : n \in 0..MaxSmallLen }

LargeSizes == { k * (MinChunkBytes + 1) + d : k \in 1..MaxFullChunks, d \in 0..1 }

LargeData == { [i \in 1..len |-> i % 256] : len \in LargeSizes }

PageData == { [i \in 1..p |-> i] : p \in 0..MaxPages }

\* A source path: whether it resolves to a regular file, its stem and suffix,
\* and its content (bytes, or the decoded pages of a .pdf).
Sources ==
       [exists : {TRUE}, stem : {"src"}, suffix : {".bin", ".txt"}, data : SmallData]
  \cup [exists : {TRUE}, stem : {"src"}, suffix : {".bin"}, data : LargeData]
  \cup [exists : {TRUE}, stem : {"src"}, suffix : {".pdf"}, data : PageData]
  \cup [exists : {FALSE}, stem : {"src"}, suffix : {".bin", ".pdf"}, data : { << >> }]

BytesInputs == {None} \cup { Some(b) : b \in MinChunkBytes..(MinChunkBytes + MaxExtra) }
PartsInputs == {None} \cup { Some(n) : n \in 0..MaxParts }

\* The output directory: missing and creatable, missing and not creatable,
\* existing and writable, existing and not writable.
DirStates == {"absent", "uncreatable", "writable", "readonly"}

\* ------------------------------------------------------------ ChunkConfig
\* ChunkConfig.__post_init__ raises ValueError
PostInitRaises(b, n) ==
  \/ b = None /\ n = None
  \/ b /= None /\ b[1] <= MinChunkBytes
  \/ n /= None /\ n[1] < 1

\* ---------------------------------------------------------- chunk names
Digit(d) == << "0", "1", "2", "3", "4", "5", "6", "7", "8", "9" >>[d + 1]

RECURSIVE Decimal(_)
Decimal(n) == IF n < 10 THEN << Digit(n) >> ELSE Append(Decimal(n \div 10), Digit(n % 10))

\* f"{n:02d}" for n >= 0
Fmt02d(n) == IF n < 10 THEN << "0", Digit(n) >> ELSE Decimal(n)

\* FileChunker._make_chunk_name
MakeChunkName(original, index, total_chunks) ==
  LET idx == Fmt02d(index)
      total_str == IF total_chunks /= 0 THEN Fmt02d(total_chunks) ELSE << "?" >>
  IN [stem |-> << original.stem, "_part_" >> \o idx \o << "-of-" >> \o total_str,
      suffix |-> original.suffix]

\* --------------------------------------------------------- strategy pick
\* get_chunker_for_file
GetChunkerForFile(file_path) ==
  IF file_path.suffix = ".pdf" THEN "PdfFileChunker"
  ELSE IF file_path.suffix \in {".txt", ".log", ".csv", ".json", ".md"} THEN "TextFileChunker"
  ELSE "GenericBinaryChunker"

\* TextFileChunker.split delegates to GenericBinaryChunker(self.config).split
UsesBinarySplit(c) == c \in {"GenericBinaryChunker", "TextFileChunker"}

\* ------------------------------------------------------- binary strategy
\* the number of parts without the "or 1" of line 110
BinPartsNoFloor(cfg, total_size) ==
  IF cfg.number_of_chunks /= None
  THEN Max(1, cfg.number_of_chunks[1])
  ELSE (total_size + cfg.bytes_per_chunk[1] - 1) \div cfg.bytes_per_chunk[1]

\* GenericBinaryChunker.split, lines 105-110: the number of parts
BinParts(cfg, total_size) ==
  IF cfg.number_of_chunks /= None
  THEN Max(1, cfg.number_of_chunks[1])
  ELSE LET q == (total_size + cfg.bytes_per_chunk[1] - 1) \div cfg.bytes_per_chunk[1]
       IN IF q /= 0 THEN q ELSE 1

\* the bytes per chunk with total_size // parts in place of the ceiling
BinBytesPerChunkFloor(cfg, total_size) ==
  IF cfg.number_of_chunks /= None
  THEN total_size \div Max(1, cfg.number_of_chunks[1])
  ELSE cfg.bytes_per_chunk[1]

\* GenericBinaryChunker.split, lines 105-110: the bytes per chunk
BinBytesPerChunk(cfg, total_size) ==
  IF cfg.number_of_chunks /= None
  THEN LET parts == Max(1, cfg.number_of_chunks[1])
       IN (total_size + parts - 1) \div parts
  ELSE cfg.bytes_per_chunk[1]

\* the last chunk sized as total_size % bytes_per_chunk
RemainingModulo(i, parts, bytes_per_chunk, total_size, tell) ==
  IF i < parts THEN bytes_per_chunk
  ELSE IF bytes_per_chunk = 0 THEN 0 ELSE total_size % bytes_per_chunk

\* line 116: how many bytes chunk i asks for
Remaining(i, parts, bytes_per_chunk, total_size, tell) ==
  IF i < parts THEN bytes_per_chunk ELSE total_size - tell

\* f_in.read(n) at offset tell: at most n bytes, fewer at end of file;
\* a negative n reads to the end of the file
FileRead(data, tell, n) ==
  IF n < 0 THEN SubSeq(data, tell + 1, Len(data))
  ELSE SubSeq(data, tell + 1, Min(tell + n, Len(data)))

\* line 126: the arguments of progress_callback after chunk i
BinProgress(tell, total_size, i, parts) ==
  [cur |-> tell, tot |-> total_size, msg |-> [kind |-> "Chunk", i |-> i, of |-> parts]]

\* --------------------------------------------------------- page strategy
\* PdfFileChunker.split, lines 147-151: n_chunks is bound only when a part
\* count is given
PdfNChunks(cfg) ==
  IF cfg.number_of_chunks /= None THEN Some(Max(1, cfg.number_of_chunks[1])) ELSE None

PdfPagesPerChunk(cfg, total_pages) ==
  IF cfg.number_of_chunks /= None
  THEN LET n_chunks == Max(1, cfg.number_of_chunks[1])
       IN (total_pages + n_chunks - 1) \div n_chunks
  ELSE Max(1, total_pages \div 10)

\* line 174
PdfProgress(page_idx, total_pages) ==
  [cur |-> page_idx, tot |-> total_pages,
   msg |-> [kind |-> "Pages", i |-> page_idx, of |-> total_pages]]

\* ------------------------------------------------------ output directory
\* path.mkdir(parents=True, exist_ok=True): the directory afterwards
Mkdir(d) == IF d = "absent" THEN "writable" ELSE d

\* _ensure_output_dir without its os.access check
EnsureOutputDirNoAccessCheck(d) == d = "uncreatable"

\* FileChunker._ensure_output_dir raises (mkdir fails, or os.access says no)
EnsureOutputDirRaises(d) == d = "uncreatable" \/ Mkdir(d) /= "writable"

\* --------------------------------------------------------- estimate
\* estimate_chunks: the count it returns
EstimateChunks(total_size, cfg) ==
  IF cfg.number_of_chunks /= None
  THEN cfg.number_of_chunks[1]
  ELSE (total_size + cfg.bytes_per_chunk[1] - 1) \div cfg.bytes_per_chunk[1]

\* ------------------------------------------------------------- the queue
\* queue.Queue.put would block
PutBlocks(q) == QueueMaxSize > 0 /\ Len(q) >= QueueMaxSize

\* a put at the head of the queue
QueuePutFront(q, item) == << item >> \o q

\* queue.Queue.put
QueuePut(q, item) == Append(q, item)

\* ------------------------------------------------------------------ state
VARIABLES
  dirState,      \* the output directory
  disk,          \* the files in the output directory: name -> content
  queue,         \* App.queue
  taken,         \* None or Some(the item process_queue took last)
  progress_bar,  \* << cur, tot >> of the last progress_bar.set
  pc,            \* per worker: where its run stands
  err,           \* per worker: the exception that ended its run
  config,        \* per worker: None or Some(ChunkConfig)
  source,        \* per worker: None or Some(source)
  chunker,       \* per worker: the class get_chunker_for_file picked
  local,         \* per worker: the locals of split()
  chunks,        \* per worker: split()'s list of chunk paths
  emitted,       \* per worker: the calls of progress_callback, in order
  openAttempts,  \* per worker: how many chunk files split() tried to open
  estimate       \* per worker: None or Some(count from estimate_chunks)

vars == << dirState, disk, queue, taken, progress_bar, pc, err, config,
           source, chunker, local, chunks, emitted, openAttempts, estimate >>

shared == << dirState, disk, queue, taken, progress_bar >>

NoLocals ==
  [total_size |-> 0, parts |-> 0, bytes_per_chunk |-> 0, i |-> 0, tell |-> 0,
   total_pages |-> 0, n_chunks |-> None, pages_per_chunk |-> 0, page_idx |-> 0,
   chunk_no |-> 0]

Init ==
  /\ dirState \in DirStates
  /\ disk = << >>
  /\ queue = << >>
  /\ taken = None
  /\ progress_bar = << 0, 1 >>
  /\ pc = [w \in Workers |-> "idle"]
  /\ err = [w \in Workers |-> "none"]
  /\ config = [w \in Workers |-> None]
  /\ source = [w \in Workers |-> None]
  /\ chunker = [w \in Workers |-> "none"]
  /\ local = [w \in Workers |-> NoLocals]
  /\ chunks = [w \in Workers |-> << >>]
  /\ emitted = [w \in Workers |-> << >>]
  /\ openAttempts = [w \in Workers |-> 0]
  /\ estimate = [w \in Workers |-> None]

Cfg(w) == config[w][1]
Src(w) == source[w][1]

\* an exception leaves split() (and, in the App, ends split_task)
Raise(w, kind) ==
  /\ pc' = [pc EXCEPT ![w] = "error"]
  /\ err' = [err EXCEPT ![w] = kind]

\* progress_callback(cur, tot, msg): recorded, and put on the queue
Callback(w, ev) ==
  /\ ~PutBlocks(queue)
  /\ emitted' = [emitted EXCEPT ![w] = Append(@, ev)]
  /\ queue' = QueuePut(queue, ev)

\* open(path, "wb") ... write ... close
WriteFile(d, path, data) == (path :> data) @@ d

\* ------------------------------------------------- a direct call of split
\* ChunkConfig(bytes_per_chunk=b, number_of_chunks=n)
NewChunkConfig(w, b, n) ==
  /\ pc[w] = "idle"
  /\ IF PostInitRaises(b, n)
     THEN /\ Raise(w, "ValueError")
          /\ UNCHANGED config
     ELSE /\ config' = [config EXCEPT ![w] = Some([bytes_per_chunk |-> b, number_of_chunks |-> n])]
          /\ pc' = [pc EXCEPT ![w] = "configured"]
          /\ UNCHANGED err
  /\ UNCHANGED << shared, source, chunker, local, chunks, emitted, openAttempts, estimate >>

\* get_chunker_for_file(src, config).split(src, dst_dir, progress_callback)
CallSplit(w, s) ==
  /\ pc[w] = "configured"
  /\ source' = [source EXCEPT ![w] = Some(s)]
  /\ chunker' = [chunker EXCEPT ![w] = GetChunkerForFile(s)]
  /\ pc' = [pc EXCEPT ![w] = "split"]
  /\ UNCHANGED << shared, err, config, local, chunks, emitted, openAttempts, estimate >>

\* estimate_chunks(input_path, config), the preview
Estimate(w) ==
  /\ pc[w] \in {"split", "returned"}
  /\ estimate[w] = None
  /\ Src(w).exists
  /\ estimate' = [estimate EXCEPT ![w] = Some(EstimateChunks(Len(Src(w).data), Cfg(w)))]
  /\ UNCHANGED << shared, pc, err, config, source, chunker, local, chunks, emitted, openAttempts >>

\* ------------------------------------------------------ the steps of split
\* lines 99-100 and 138-139: if not src.is_file(): raise FileNotFoundError
CheckSource(w) ==
  /\ pc[w] = "split"
  /\ IF ~Src(w).exists
     THEN Raise(w, "FileNotFoundError")
     ELSE /\ pc' = [pc EXCEPT ![w] = "ensure"]
          /\ UNCHANGED err
  /\ UNCHANGED << shared, config, source, chunker, local, chunks, emitted, openAttempts, estimate >>

\* lines 102 and 141: self._ensure_output_dir(dst_dir)
EnsureOutputDir(w) ==
  /\ pc[w] = "ensure"
  /\ dirState' = (IF dirState = "uncreatable" THEN dirState ELSE Mkdir(dirState))
  /\ IF EnsureOutputDirRaises(dirState)
     THEN Raise(w, "PermissionError")
     ELSE /\ pc' = [pc EXCEPT ![w] = "plan"]
          /\ UNCHANGED err
  /\ UNCHANGED << disk, queue, taken, progress_bar, config, source, chunker,
                  local, chunks, emitted, openAttempts, estimate >>

\* lines 103-113: stat, the plan, open(src, "rb")
BinPlan(w) ==
  /\ pc[w] = "plan"
  /\ UsesBinarySplit(chunker[w])
  /\ LET total_size == Len(Src(w).data)
     IN local' = [local EXCEPT ![w] = [NoLocals EXCEPT
                    !.total_size = total_size,
                    !.parts = BinParts(Cfg(w), total_size),
                    !.bytes_per_chunk = BinBytesPerChunk(Cfg(w), total_size),
                    !.i = 1,
                    !.tell = 0]]
  /\ pc' = [pc EXCEPT ![w] = "loop"]
  /\ UNCHANGED << shared, err, config, source, chunker, chunks, emitted, openAttempts, estimate >>

\* lines 114-123: one chunk is read, written, closed and appended
BinChunk(w) ==
  /\ pc[w] = "loop"
  /\ UsesBinarySplit(chunker[w])
  /\ local[w].i <= local[w].parts
  /\ LET L == local[w]
         chunk_path == MakeChunkName(Src(w), L.i, L.parts)
         remaining == Remaining(L.i, L.parts, L.bytes_per_chunk, L.total_size, L.tell)
         data == FileRead(Src(w).data, L.tell, remaining)
     IN /\ openAttempts' = [openAttempts EXCEPT ![w] = @ + 1]
        /\ IF dirState /= "writable"
           THEN /\ Raise(w, "PermissionError")
                /\ UNCHANGED << disk, local, chunks >>
           ELSE /\ disk' = WriteFile(disk, chunk_path, data)
                /\ local' = [local EXCEPT ![w].tell = L.tell + Len(data)]
                /\ chunks' = [chunks EXCEPT ![w] = Append(@, chunk_path)]
                /\ pc' = [pc EXCEPT ![w] = "report"]
                /\ UNCHANGED err
  /\ UNCHANGED << dirState, queue, taken, progress_bar, config, source, chunker,
                  emitted, estimate >>

\* lines 125-126: progress_callback(f_in.tell(), total_size, f"Chunk {i}/{parts}")
BinReport(w) ==
  /\ pc[w] = "report"
  /\ UsesBinarySplit(chunker[w])
  /\ LET L == local[w]
     IN Callback(w, BinProgress(L.tell, L.total_size, L.i, L.parts))
  /\ local' = [local EXCEPT ![w].i = @ + 1]
  /\ pc' = [pc EXCEPT ![w] = "loop"]
  /\ UNCHANGED << dirState, disk, taken, progress_bar, err, config, source, chunker,
                  chunks, openAttempts, estimate >>

\* line 128: return chunks
BinReturn(w) ==
  /\ pc[w] = "loop"
  /\ UsesBinarySplit(chunker[w])
  /\ local[w].i > local[w].parts
  /\ pc' = [pc EXCEPT ![w] = "returned"]
  /\ UNCHANGED << shared, err, config, source, chunker, local, chunks, emitted, openAttempts, estimate >>

\* lines 143-155: the reader, the plan
PdfPlan(w) ==
  /\ pc[w] = "plan"
  /\ chunker[w] = "PdfFileChunker"
  /\ LET total_pages == Len(Src(w).data)
     IN local' = [local EXCEPT ![w] = [NoLocals EXCEPT
                    !.total_pages = total_pages,
                    !.n_chunks = PdfNChunks(Cfg(w)),
                    !.pages_per_chunk = PdfPagesPerChunk(Cfg(w), total_pages),
                    !.page_idx = 0,
                    !.chunk_no = 1]]
  /\ pc' = [pc EXCEPT ![w] = "loop"]
  /\ UNCHANGED << shared, err, config, source, chunker, chunks, emitted, openAttempts, estimate >>

\* lines 157-171: one run of pages is collected, named, written and appended;
\* naming it reads n_chunks, an unbound local unless a part count was given
PdfChunk(w) ==
  /\ pc[w] = "loop"
  /\ chunker[w] = "PdfFileChunker"
  /\ local[w].page_idx < local[w].total_pages
  /\ LET L == local[w]
         start == L.page_idx
         end == Min(L.page_idx + L.pages_per_chunk, L.total_pages)
         pages == SubSeq(Src(w).data, start + 1, end)
     IN IF L.n_chunks = None
        THEN /\ Raise(w, "UnboundLocalError")
             /\ UNCHANGED << disk, local, chunks, openAttempts >>
        ELSE /\ openAttempts' = [openAttempts EXCEPT ![w] = @ + 1]
             /\ IF dirState /= "writable"
                THEN /\ Raise(w, "PermissionError")
                     /\ UNCHANGED << disk, local, chunks >>
                ELSE /\ disk' = WriteFile(disk, MakeChunkName(Src(w), L.chunk_no, L.n_chunks[1]), pages)
                     /\ chunks' = [chunks EXCEPT ![w] =
                                     Append(@, MakeChunkName(Src(w), L.chunk_no, L.n_chunks[1]))]
                     /\ local' = [local EXCEPT ![w].page_idx = end, ![w].chunk_no = L.chunk_no + 1]
                     /\ pc' = [pc EXCEPT ![w] = "report"]
                     /\ UNCHANGED err
  /\ UNCHANGED << dirState, queue, taken, progress_bar, config, source, chunker,
                  emitted, estimate >>

\* lines 173-174: progress_callback(page_idx, total_pages, ...)
PdfReport(w) ==
  /\ pc[w] = "report"
  /\ chunker[w] = "PdfFileChunker"
  /\ Callback(w, PdfProgress(local[w].page_idx, local[w].total_pages))
  /\ pc' = [pc EXCEPT ![w] = "loop"]
  /\ UNCHANGED << dirState, disk, taken, progress_bar, err, config, source, chunker,
                  local, chunks, openAttempts, estimate >>

\* line 176: return chunks
PdfReturn(w) ==
  /\ pc[w] = "loop"
  /\ chunker[w] = "PdfFileChunker"
  /\ local[w].page_idx >= local[w].total_pages
  /\ pc' = [pc EXCEPT ![w] = "returned"]
  /\ UNCHANGED << shared, err, config, source, chunker, local, chunks, emitted, openAttempts, estimate >>

SplitStep(w) ==
  \/ CheckSource(w)
  \/ EnsureOutputDir(w)
  \/ BinPlan(w)
  \/ BinChunk(w)
  \/ BinReport(w)
  \/ BinReturn(w)
  \/ PdfPlan(w)
  \/ PdfChunk(w)
  \/ PdfReport(w)
  \/ PdfReturn(w)

Next ==
  \/ \E b \in BytesInputs, n \in PartsInputs : NewChunkConfig(1, b, n)
  \/ \E s \in Sources : CallSplit(1, s)
  \/ Estimate(1)
  \/ SplitStep(1)

Spec == Init /\ [][Next]_vars

\* ---------------------------------------------------------------- the App
\* what the entries can hold when split_task reads them
AppSources ==
  { [exists |-> TRUE, stem |-> "src", suffix |-> ".bin", data |-> << 0, 255, 0 >>],
    [exists |-> TRUE, stem |-> "src", suffix |-> ".pdf", data |-> << 1, 2 >>],
    [exists |-> FALSE, stem |-> "src", suffix |-> ".bin", data |-> << >>] }

\* mode "size" with int(val * unit.value) bytes, or mode "parts" with that many
AppPolicies ==
  { [mode |-> "size", value |-> MinChunkBytes],
    [mode |-> "size", value |-> MinChunkBytes + 1],
    [mode |-> "parts", value |-> 0],
    [mode |-> "parts", value |-> 2] }

\* App.start_splitting: threading.Thread(target=self.split_task).start()
StartSplitting ==
  /\ \E w \in Workers :
       /\ pc[w] = "idle"
       /\ \A v \in Workers : v < w => pc[v] /= "idle"
       /\ pc' = [pc EXCEPT ![w] = "task"]
  /\ UNCHANGED << shared, err, config, source, chunker, local, chunks, emitted,
                  openAttempts, estimate >>

\* App.split_task, lines 375-400: read the entries, build the policy, pick the
\* chunker
SplitTask(w) ==
  /\ pc[w] = "task"
  /\ \E inp \in AppSources, p \in AppPolicies :
       LET b == IF p.mode = "size" THEN Some(p.value) ELSE None
           n == IF p.mode = "parts" THEN Some(p.value) ELSE None
       IN IF \/ ~inp.exists
             \/ p.mode = "parts" /\ p.value < 1
             \/ PostInitRaises(b, n)
          THEN /\ Raise(w, "ValueError")
               /\ UNCHANGED << config, source, chunker, progress_bar >>
          ELSE /\ config' = [config EXCEPT ![w] =
                              Some([bytes_per_chunk |-> b, number_of_chunks |-> n])]
               /\ source' = [source EXCEPT ![w] = Some(inp)]
               /\ chunker' = [chunker EXCEPT ![w] = GetChunkerForFile(inp)]
               /\ progress_bar' = << 0, 1 >>
               /\ pc' = [pc EXCEPT ![w] = "split"]
               /\ UNCHANGED err
  /\ UNCHANGED << dirState, disk, queue, taken, local, chunks, emitted,
                  openAttempts, estimate >>

\* lines 407-412: the items split_task puts once split has returned
SummaryItems(paths) ==
  LET item(kind, i, of) == [cur |-> 1, tot |-> 1, msg |-> [kind |-> kind, i |-> i, of |-> of]]
  IN << item("rule", 0, 0), item("Done", Len(paths), Len(paths)) >>
     \o [k \in 1..Len(paths) |-> item("file", k, Len(disk[paths[k]]))]
     \o << item("rule", 0, 0) >>

RECURSIVE PutAll(_, _)
PutAll(q, items) ==
  IF items = << >> THEN q ELSE PutAll(QueuePut(q, Head(items)), Tail(items))

\* App.split_task, lines 405-414: split has returned, the summary is queued
\* and the thread ends
SplitTaskDone(w) ==
  /\ pc[w] = "returned"
  /\ ~PutBlocks(queue)
  /\ queue' = PutAll(queue, SummaryItems(chunks[w]))
  /\ pc' = [pc EXCEPT ![w] = "done"]
  /\ config' = [config EXCEPT ![w] = None]
  /\ source' = [source EXCEPT ![w] = None]
  /\ chunker' = [chunker EXCEPT ![w] = "none"]
  /\ local' = [local EXCEPT ![w] = NoLocals]
  /\ chunks' = [chunks EXCEPT ![w] = << >>]
  /\ emitted' = [emitted EXCEPT ![w] = << >>]
  /\ openAttempts' = [openAttempts EXCEPT ![w] = 0]
  /\ UNCHANGED << dirState, disk, taken, progress_bar, err, estimate >>

\* App.split_task, lines 416-418: the exception is shown and logged, and the
\* thread ends
SplitTaskFailed(w) ==
  /\ pc[w] = "error"
  /\ pc' = [pc EXCEPT ![w] = "done"]
  /\ err' = [err EXCEPT ![w] = "none"]
  /\ config' = [config EXCEPT ![w] = None]
  /\ source' = [source EXCEPT ![w] = None]
  /\ chunker' = [chunker EXCEPT ![w] = "none"]
  /\ local' = [local EXCEPT ![w] = NoLocals]
  /\ chunks' = [chunks EXCEPT ![w] = << >>]
  /\ emitted' = [emitted EXCEPT ![w] = << >>]
  /\ openAttempts' = [openAttempts EXCEPT ![w] = 0]
  /\ UNCHANGED << shared, estimate >>

\* App.process_queue: one get_nowait and what is done with the item (the
\* worker threads run between two gets; on queue.Empty the handler only
\* reschedules itself)
ProcessQueue ==
  /\ queue /= << >>
  /\ LET item == Head(queue)
     IN /\ progress_bar' = (IF item.tot > 0 THEN << item.cur, item.tot >> ELSE progress_bar)
        /\ taken' = Some(item)
  /\ queue' = Tail(queue)
  /\ UNCHANGED << dirState, disk, pc, err, config, source, chunker, local,
                  chunks, emitted, openAttempts, estimate >>

NextApp ==
  \/ StartSplitting
  \/ \E w \in Workers : SplitTask(w)
  \/ \E w \in Workers : SplitStep(w)
  \/ \E w \in Workers : SplitTaskDone(w)
  \/ \E w \in Workers : SplitTaskFailed(w)
  \/ ProcessQueue

SpecApp == Init /\ [][NextApp]_vars

\* ===================================================== the claims, on Spec
\* ceil(a / b) for a >= 0, b >= 1
CeilDiv(a, b) == IF a % b = 0 THEN a \div b ELSE (a \div b) + 1

RECURSIVE ConcatFiles(_)
\* the contents of the files at paths, concatenated in list order
ConcatFiles(paths) ==
  IF paths = << >> THEN << >> ELSE disk[Head(paths)] \o ConcatFiles(Tail(paths))

RECURSIVE SumSizes(_)
\* the sizes of the files at paths, summed
SumSizes(paths) ==
  IF paths = << >> THEN 0 ELSE Len(disk[Head(paths)]) + SumSizes(Tail(paths))

SizeOf(w, k) == Len(disk[chunks[w][k]])

BinaryReturned(w) == pc[w] = "returned" /\ UsesBinarySplit(chunker[w])

SizePolicy(w) == Cfg(w).bytes_per_chunk /= None /\ Cfg(w).number_of_chunks = None
CountPolicy(w) == Cfg(w).bytes_per_chunk = None /\ Cfg(w).number_of_chunks /= None

\* C1: when the binary split (GenericBinaryChunker, also through
\* TextFileChunker) has returned, its chunk files are the ones named for
\* indices 1..N, and their contents concatenated in index order are exactly
\* the bytes of the source.
C1_RoundTrip ==
  \A w \in Workers :
    BinaryReturned(w) =>
      /\ \A k \in 1..Len(chunks[w]) :
           chunks[w][k] = MakeChunkName(Src(w), k, Len(chunks[w]))
      /\ ConcatFiles(chunks[w]) = Src(w).data

\* a size-based run over a large source that made three chunks
C1_Witness ==
  /\ BinaryReturned(1)
  /\ SizePolicy(1)
  /\ Len(chunks[1]) = 3
  /\ Len(Src(1).data) > 2 * MinChunkBytes

\* C2: under ByteSize(s) the binary split makes max(1, ceil(t/s)) chunks; every
\* chunk but the last has exactly s bytes, the last has at most s, and the
\* sizes sum to t.
C2_ByteSizePlan ==
  \A w \in Workers :
    (BinaryReturned(w) /\ SizePolicy(w)) =>
      LET s == Cfg(w).bytes_per_chunk[1]
          t == Len(Src(w).data)
          N == Len(chunks[w])
      IN /\ N = Max(1, CeilDiv(t, s))
         /\ \A k \in 1..(N - 1) : SizeOf(w, k) = s
         /\ SizeOf(w, N) <= s
         /\ SumSizes(chunks[w]) = t

\* three chunks, the last one smaller than s
C2_Witness ==
  /\ BinaryReturned(1)
  /\ SizePolicy(1)
  /\ Len(chunks[1]) = 3
  /\ SizeOf(1, 3) < Cfg(1).bytes_per_chunk[1]
  /\ SizeOf(1, 1) = Cfg(1).bytes_per_chunk[1]

Abs(x) == IF x < 0 THEN -x ELSE x

\* C3 as stated: under PartCount(n) the binary split makes exactly n chunks whose
\* sizes sum to t, every one within 1 unit of ceil(t/n).
C3_Original ==
  \A w \in Workers :
    (BinaryReturned(w) /\ CountPolicy(w)) =>
      LET n == Cfg(w).number_of_chunks[1]
          t == Len(Src(w).data)
      IN /\ Len(chunks[w]) = n
         /\ SumSizes(chunks[w]) = t
         /\ \A k \in 1..Len(chunks[w]) : Abs(SizeOf(w, k) - CeilDiv(t, n)) <= 1

\* C3 amended: under PartCount(n) the binary split makes exactly n chunks whose
\* sizes sum to t; no chunk is larger than ceil(t/n), and the chunks are filled
\* in index order: after a chunk smaller than ceil(t/n) every chunk is empty.
C3_PartCountPlan ==
  \A w \in Workers :
    (BinaryReturned(w) /\ CountPolicy(w)) =>
      LET n == Cfg(w).number_of_chunks[1]
          t == Len(Src(w).data)
          c == CeilDiv(t, n)
      IN /\ Len(chunks[w]) = n
         /\ SumSizes(chunks[w]) = t
         /\ \A k \in 1..Len(chunks[w]) : SizeOf(w, k) <= c
         /\ \A k \in 1..(Len(chunks[w]) - 1) : SizeOf(w, k) < c => SizeOf(w, k + 1) = 0

\* a count-based run with a chunk that is two units away from ceil(t/n)
C3_Witness ==
  /\ BinaryReturned(1)
  /\ CountPolicy(1)
  /\ Len(Src(1).data) = 4
  /\ Cfg(1).number_of_chunks[1] = 3
  /\ SizeOf(1, 1) = 2
  /\ SizeOf(1, 3) = 0

\* C4: a page split given an existing source and a usable output directory
\* never ends in an error, and when it has returned the pages of its chunks,
\* concatenated in index order, are the source's pages.
C4_PageRoundTrip ==
  \A w \in Workers :
    (chunker[w] = "PdfFileChunker" /\ Src(w).exists /\ dirState \in {"absent", "writable"}) =>
      /\ pc[w] /= "error"
      /\ pc[w] = "returned" => ConcatFiles(chunks[w]) = Src(w).data

\* C5: every ChunkConfig that exists has exactly one of its two fields set,
\* and that field is in range.
C5_ConfigWellFormed ==
  \A w \in Workers :
    config[w] /= None =>
      /\ (Cfg(w).bytes_per_chunk = None) /= (Cfg(w).number_of_chunks = None)
      /\ Cfg(w).bytes_per_chunk /= None => Cfg(w).bytes_per_chunk[1] > MinChunkBytes
      /\ Cfg(w).number_of_chunks /= None => Cfg(w).number_of_chunks[1] >= 1

\* C6: the count estimate_chunks returns is the number of chunks the binary
\* split makes for the same source and policy.
C6_EstimateMatches ==
  \A w \in Workers :
    (BinaryReturned(w) /\ estimate[w] /= None /\ (SizePolicy(w) \/ CountPolicy(w))) =>
      estimate[w][1] = Len(chunks[w])

\* the source is no regular file, or the output directory cannot be created
\* or is not writable
BadEnvironment(w) == ~Src(w).exists \/ dirState \in {"uncreatable", "readonly"}

\* C7: when the source is no regular file or the output directory cannot be
\* created or is not writable, split (either splitter) gets no further than
\* its two checks: it ends in FileNotFoundError or PermissionError having tried
\* to open no chunk file, written no file, listed no chunk and reported no
\* progress.
C7_FailsBeforeWriting ==
  \A w \in Workers :
    (source[w] /= None /\ BadEnvironment(w)) =>
      /\ pc[w] \in {"split", "ensure", "error"}
      /\ pc[w] = "error" =>
           err[w] = (IF ~Src(w).exists THEN "FileNotFoundError" ELSE "PermissionError")
      /\ pc[w] = "ensure" => Src(w).exists
      /\ openAttempts[w] = 0
      /\ DOMAIN disk = {}
      /\ chunks[w] = << >>
      /\ emitted[w] = << >>

\* a split that failed on the unwritable directory
C7_Witness ==
  /\ pc[1] = "error"
  /\ err[1] = "PermissionError"
  /\ dirState = "readonly"
  /\ Src(1).exists

\* C10: under PartCount(n) with at least one page, the page split makes
\* max(1, n) chunks, the total its chunk names declare: the chunks are those
\* named for the indices 1..n.
C10_PageCountMatchesDeclared ==
  \A w \in Workers :
    (pc[w] = "returned" /\ chunker[w] = "PdfFileChunker" /\ CountPolicy(w)
       /\ Len(Src(w).data) >= 1) =>
      LET n == Max(1, Cfg(w).number_of_chunks[1])
      IN /\ Len(chunks[w]) = n
         /\ \A k \in 1..n : chunks[w][k] = MakeChunkName(Src(w), k, n)

\* ================================================== the claims, on SpecApp
\* what C8 says of every state
C8_StateOrdered ==
  /\ \A w \in Workers :
       /\ Len(chunks[w]) = Len(emitted[w]) + (IF pc[w] = "report" THEN 1 ELSE 0)
       /\ \A k \in 1..Len(emitted[w]) :
            /\ chunks[w][k] \in DOMAIN disk
            /\ UsesBinarySplit(chunker[w]) => emitted[w][k].msg.i = k
            /\ k > 1 => emitted[w][k - 1].cur <= emitted[w][k].cur
            /\ emitted[w][k].tot = Len(Src(w).data)
       /\ (pc[w] = "returned" /\ emitted[w] /= << >>) =>
            emitted[w][Len(emitted[w])].cur = emitted[w][Len(emitted[w])].tot
  /\ ~PutBlocks(queue)

\* what C8 says of every step: the queue grows only at its tail, a progress
\* event is put there by the step that reports it, and process_queue takes
\* the head
C8_StepFifo ==
  /\ \A w \in Workers :
       Len(emitted'[w]) > Len(emitted[w]) =>
         /\ Len(emitted'[w]) = Len(emitted[w]) + 1
         /\ queue' = Append(queue, emitted'[w][Len(emitted'[w])])
  /\ \/ /\ Len(queue') >= Len(queue)
        /\ SubSeq(queue', 1, Len(queue)) = queue
        /\ taken' = taken
     \/ /\ queue /= << >>
        /\ queue' = Tail(queue)
        /\ taken' = Some(Head(queue))

\* C8: in each run, progress_callback is called once per chunk, after the
\* chunk's file is on disk and in index order; the reported unitsDone never
\* decreases and, once split has returned, equals unitsTotal on the last
\* event; a put on App.queue never blocks; and process_queue takes the items
\* in the order they were put.
C8_ProgressOrdered == [] C8_StateOrdered /\ [][C8_StepFifo]_vars

\* one run has ended, a second has returned from split with two chunks, and
\* process_queue has taken everything they put so far
C8_Witness ==
  /\ pc[1] = "done"
  /\ pc[2] = "returned"
  /\ Len(emitted[2]) = 2
  /\ queue = << >>
  /\ taken /= None
  /\ taken[1].msg.kind = "Chunk"

Running == {"task", "split", "ensure", "plan", "loop", "report", "returned", "error"}

\* C9: at most one split_task worker is running.
C9_OneActiveRun == Cardinality({ w \in Workers : pc[w] \in Running }) <= 1

====
